---- MODULE Spec2Model ----
(***************************************************************************)
(* Model of the DataCleaner class of src/src/data_cleaner/data_cleaner.py. *)
(*                                                                         *)
(* A DataFrame is a record [columns, rows]: the set of column names and    *)
(* the sequence of rows, each row a function from the column names to a    *)
(* cell.  A cell is a tagged record: the null marker (NaN / NaT / None),   *)
(* a number, a timestamp or a string.  Strings are sequences of            *)
(* one-character strings, so that strip, title-casing, parsing and the     *)
(* lexicographic order are computed and not assumed.  Numbers are          *)
(* fixed-point integers with Scale units per 1.0; timestamps are integers  *)
(* (calendar years).  DataFrame objects live in a heap and the attributes  *)
(* of the DataCleaner object hold references, so that in-place mutation    *)
(* and aliasing are part of the model.                                     *)
(***************************************************************************)
EXTENDS Integers, Sequences, FiniteSets, TLC

VARIABLES
    heap,       \* reference -> DataFrame object
    self,       \* the attributes of the DataCleaner object (references or None)
    trace,      \* per dataset kind: what the last clean_*_data call did, step by step
    returned,   \* outcome of the last public call
    clock,      \* last instant read through pd.Timestamp.now()
    runs,       \* per dataset kind: number of clean_*_data executions so far
    varied      \* the dataset kind whose cleaning method the caller also calls directly

vars == <<heap, self, trace, returned, clock, runs, varied>>

-----------------------------------------------------------------------------
(* Bounds of the model *)

\* largest number of rows of an input DataFrame
MaxRows == 2
\* largest number of executions of one clean_*_data method
MaxRuns == 2
\* the processing instant (calendar year) when the object is constructed
FirstInstant == 2026

-----------------------------------------------------------------------------
(* Cells *)

\* fixed-point resolution of a float: Scale units are 1.0
Scale == 10 * 1000

None == "None"

NaN == [t |-> "null", v |-> 0]
Num(n) == [t |-> "num", v |-> n]
Ts(y) == [t |-> "ts", v |-> y]
Str(s) == [t |-> "str", v |-> s]

isnull(c) == c.t = "null"

Range(f) == {f[i] : i \in DOMAIN f}

\* the characters of the model, in code-point order
Alphabet ==
    <<" ", "-", "0", "1", "2", "3", "4", "5", "6", "7", "8", "9",
      "A", "B", "C", "D", "E", "F", "G", "H", "I", "J", "K", "L", "M",
      "N", "O", "P", "Q", "R", "S", "T", "U", "V", "W", "X", "Y", "Z",
      "a", "b", "c", "d", "e", "f", "g", "h", "i", "j", "k", "l", "m",
      "n", "o", "p", "q", "r", "s", "t", "u", "v", "w", "x", "y", "z">>

Ord(ch) == CHOOSE i \in DOMAIN Alphabet : Alphabet[i] = ch

FirstDigit == Ord("0")
FirstUpper == Ord("A")
FirstLower == Ord("a")

IsDigit(ch) == Ord(ch) >= FirstDigit /\ Ord(ch) < FirstUpper
IsUpper(ch) == Ord(ch) >= FirstUpper /\ Ord(ch) < FirstLower
IsLower(ch) == Ord(ch) >= FirstLower
IsCased(ch) == IsUpper(ch) \/ IsLower(ch)
ToUpper(ch) == IF IsLower(ch) THEN Alphabet[Ord(ch) - FirstLower + FirstUpper] ELSE ch
ToLower(ch) == IF IsUpper(ch) THEN Alphabet[Ord(ch) - FirstUpper + FirstLower] ELSE ch

\* str.strip(): leading and trailing whitespace removed
strip(s) ==
    LET keep == {i \in DOMAIN s : s[i] # " "}
    IN  IF keep = {} THEN <<>>
        ELSE LET lo == CHOOSE i \in keep : \A j \in keep : i <= j
                 hi == CHOOSE i \in keep : \A j \in keep : i >= j
             IN  SubSeq(s, lo, hi)

\* str.title(): a cased character is upper-cased when it follows an uncased
\* character (or starts the string) and lower-cased otherwise
title(s) ==
    [i \in DOMAIN s |->
        LET prev_cased == i > 1 /\ IsCased(s[i - 1])
        IN  IF IsCased(s[i])
            THEN (IF prev_cased THEN ToLower(s[i]) ELSE ToUpper(s[i]))
            ELSE s[i]]

\* lexicographic order of strings by code point (the order np.sort uses)
RECURSIVE StrLess(_, _)
StrLess(a, b) ==
    IF b = <<>> THEN FALSE
    ELSE IF a = <<>> THEN TRUE
    ELSE IF Head(a) # Head(b) THEN Ord(Head(a)) < Ord(Head(b))
    ELSE StrLess(Tail(a), Tail(b))

\* value of a string of decimal digits
RECURSIVE DigitsValue(_)
DigitsValue(s) ==
    IF s = <<>> THEN 0
    ELSE 10 * DigitsValue(SubSeq(s, 1, Len(s) - 1)) + (Ord(s[Len(s)]) - FirstDigit)

AllDigits(s) == s # <<>> /\ \A i \in DOMAIN s : IsDigit(s[i])

\* pd.to_numeric(errors="coerce") on one cell: numbers and nulls are kept,
\* a string holding a decimal integer (optionally signed) is parsed, any
\* other value becomes NaN
to_numeric(c) ==
    IF c.t \in {"num", "null"} THEN c
    ELSE IF c.t = "str" /\ AllDigits(c.v) THEN Num(DigitsValue(c.v) * Scale)
    ELSE IF c.t = "str" /\ c.v # <<>> /\ Head(c.v) = "-" /\ AllDigits(Tail(c.v))
         THEN Num((0 - DigitsValue(Tail(c.v))) * Scale)
    ELSE NaN

\* pd.to_datetime(errors="coerce") on one cell: timestamps and nulls are
\* kept, a four-digit year string is parsed, any other value becomes NaT
to_datetime(c) ==
    IF c.t \in {"ts", "null"} THEN c
    ELSE IF c.t = "str" /\ Len(c.v) = 4 /\ AllDigits(c.v) THEN Ts(DigitsValue(c.v))
    ELSE NaN

-----------------------------------------------------------------------------
(* DataFrames *)

DataFrame(columns, rows) == [columns |-> columns, rows |-> rows]

len(df) == Len(df.rows)

\* df[col] as a sequence of cells
Column(df, col) == [i \in DOMAIN df.rows |-> df.rows[i][col]]

\* the assignment of a column as it would be if it left the rows in the
\* reverse order
AssignColumn_reversed(df, col, cells) ==
    DataFrame(df.columns,
              [i \in DOMAIN df.rows |->
                  [df.rows[Len(df.rows) + 1 - i] EXCEPT ![col] = cells[Len(df.rows) + 1 - i]]])

\* df[col] = <cells>: the column replaced, on the same rows
AssignColumn(df, col, cells) ==
    DataFrame(df.columns,
              [i \in DOMAIN df.rows |-> [df.rows[i] EXCEPT ![col] = cells[i]]])

\* Series.isnull().sum()
CountNull(cells) == Cardinality({i \in DOMAIN cells : isnull(cells[i])})

\* Series.fillna(value)
fillna(cells, value) ==
    [i \in DOMAIN cells |-> IF isnull(cells[i]) THEN value ELSE cells[i]]

\* the order np.sort gives the values of one column
CellLess(a, b) ==
    IF a.t = "str" /\ b.t = "str" THEN StrLess(a.v, b.v)
    ELSE a.t = b.t /\ a.t \in {"num", "ts"} /\ a.v < b.v

RECURSIVE SortCells(_)
SortCells(S) ==
    IF S = {} THEN <<>>
    ELSE LET least == CHOOSE a \in S : \A b \in S \ {a} : CellLess(a, b)
         IN  <<least>> \o SortCells(S \ {least})

\* mode() as it would be without the sort: the most frequent values in the
\* order of the rows
mode_unsorted(cells) ==
    LET values == {c \in Range(cells) : ~isnull(c)}
        count(c) == Cardinality({i \in DOMAIN cells : cells[i] = c})
        most == {c \in values : \A d \in values : count(d) <= count(c)}
    IN  SelectSeq([i \in DOMAIN cells |-> cells[i]], LAMBDA c : c \in most)

\* Series.mode(): the most frequent non-null values, sorted ascending
\* (empty when every value is null)
mode(cells) ==
    LET values == {c \in Range(cells) : ~isnull(c)}
        count(c) == Cardinality({i \in DOMAIN cells : cells[i] = c})
        most == {c \in values : \A d \in values : count(d) <= count(c)}
    IN  SortCells(most)

\* the k-th smallest of the numbers of a sequence (k from 1)
KthSmallest(nums, k) ==
    CHOOSE x \in Range(nums) :
        /\ Cardinality({i \in DOMAIN nums : nums[i] < x}) < k
        /\ Cardinality({i \in DOMAIN nums : nums[i] <= x}) >= k

\* Series.quantile(q) with q = q_num / q_den, linear interpolation between
\* the two closest order statistics of the non-null values; NaN when there
\* is no non-null value.  The interpolated value is rounded down to the
\* fixed-point resolution.
quantile(cells, q_num, q_den) ==
    LET nums == SelectSeq([i \in DOMAIN cells |-> cells[i]], LAMBDA c : ~isnull(c))
        vals == [i \in DOMAIN nums |-> nums[i].v]
        n == Len(vals)
        position == (n - 1) * q_num
        below == position \div q_den
        fraction == position % q_den
        lo == KthSmallest(vals, below + 1)
        hi == KthSmallest(vals, below + 2)
    IN  IF n = 0 THEN NaN
        ELSE IF fraction = 0 THEN Num(lo)
        ELSE Num(lo + ((hi - lo) \div q_den) * fraction
                    + (((hi - lo) % q_den) * fraction) \div q_den)

\* DataFrame.drop_duplicates(subset, keep="first"): the rows are visited in
\* order and a row is dropped when its key has been seen (nulls compare equal)
KeyOf(row, subset_cols) == [c \in subset_cols |-> row[c]]

RECURSIVE DropSeen(_, _, _)
DropSeen(rows, subset_cols, seen) ==
    IF rows = <<>> THEN <<>>
    ELSE LET key == KeyOf(Head(rows), subset_cols)
         IN  IF key \in seen
             THEN DropSeen(Tail(rows), subset_cols, seen)
             ELSE <<Head(rows)>> \o DropSeen(Tail(rows), subset_cols, seen \cup {key})

\* drop_duplicates as it would be with keep="last"
drop_duplicates_last(df, subset_cols) ==
    LET kept == SelectSeq([i \in DOMAIN df.rows |-> i],
                    LAMBDA i : \A j \in i + 1 .. Len(df.rows) :
                        KeyOf(df.rows[j], subset_cols) # KeyOf(df.rows[i], subset_cols))
    IN  DataFrame(df.columns, [m \in DOMAIN kept |-> df.rows[kept[m]]])

drop_duplicates(df, subset_cols) ==
    DataFrame(df.columns, DropSeen(df.rows, subset_cols, {}))

\* DataFrame.dropna(subset): raises KeyError when a column of subset is absent
dropna_raises(df, subset) == \E c \in subset : c \notin df.columns

\* dropna as it would be with how="all": a row is removed when every column
\* of subset is null
dropna_all(df, subset) ==
    DataFrame(df.columns,
              SelectSeq(df.rows, LAMBDA row : \E c \in subset : ~isnull(row[c])))

\* DataFrame.dropna(subset): rows with a null in a column of subset removed
dropna(df, subset) ==
    DataFrame(df.columns,
              SelectSeq(df.rows, LAMBDA row : \A c \in subset : ~isnull(row[c])))

\* pd.api.types.is_numeric_dtype: the column holds numbers (NaN included)
is_numeric_dtype(cells) == \A i \in DOMAIN cells : cells[i].t \in {"num", "null"}

\* pd.api.types.is_string_dtype: the column holds strings
is_string_dtype(cells) == \A i \in DOMAIN cells : cells[i].t = "str"

-----------------------------------------------------------------------------
(* The internal methods of DataCleaner.  A list argument is a sequence of  *)
(* column names (None is the empty sequence); an optional number is a      *)
(* sequence that is empty (None) or holds the number.  A method takes the  *)
(* record c of the cleaning call in the place of its argument df: c.left   *)
(* is the DataFrame df, and the method records what it logs in c.          *)

\* lines 45-56: one column of columns_to_fill_mode
FillMode(df, col) ==
    IF col \in df.columns
    THEN LET mode_val == mode(Column(df, col))
         IN  IF mode_val # <<>>
             THEN AssignColumn(df, col, fillna(Column(df, col), mode_val[1]))
             ELSE AssignColumn(df, col, fillna(Column(df, col), Str(<<"u", "n", "k", "n", "o", "w", "n">>)))
    ELSE df

\* lines 58-61: one column of columns_to_fill_unknown
FillUnknown(df, col) ==
    IF col \in df.columns
    THEN AssignColumn(df, col, fillna(Column(df, col), Str(<<"U", "n", "k", "n", "o", "w", "n">>)))
    ELSE df

\* The record c of one call of a cleaning method: the DataFrame object the
\* local df refers to as the call has left it so far (every step works on it
\* in place), the instant pd.Timestamp.now() returns, the DataFrame after
\* each step, what each step reported, and whether the call has raised.
Call(df, now) ==
    [ran |-> TRUE,
     now |-> now,
     input |-> df,
     after_duplicates |-> df,
     duplicates_dropped |-> 0,
     after_datatypes |-> df,
     failed |-> <<>>,
     future |-> <<>>,
     after_fill_mode |-> df,
     after_fill_unknown |-> df,
     after_missing |-> df,
     rows_dropped |-> 0,
     raised |-> FALSE,
     outliers |-> <<>>,
     left |-> df]

\* lines 45-56: the loop over columns_to_fill_mode
RECURSIVE FillModeColumns(_, _)
FillModeColumns(c, cols) ==
    IF cols = <<>> THEN [c EXCEPT !.after_fill_mode = c.left]
    ELSE FillModeColumns([c EXCEPT !.left = FillMode(@, Head(cols))], Tail(cols))

\* lines 58-61: the loop over columns_to_fill_unknown
RECURSIVE FillUnknownColumns(_, _)
FillUnknownColumns(c, cols) ==
    IF cols = <<>> THEN [c EXCEPT !.after_fill_unknown = c.left]
    ELSE FillUnknownColumns([c EXCEPT !.left = FillUnknown(@, Head(cols))], Tail(cols))

\* lines 63-68: the rows with a null in a listed column are dropped and
\* counted; dropna raises KeyError when a listed column is absent
DropRows(c, cols) ==
    IF cols = <<>>
    THEN [c EXCEPT !.after_missing = c.left, !.rows_dropped = 0]
    ELSE IF dropna_raises(c.left, Range(cols))
    THEN [c EXCEPT !.after_missing = c.left, !.rows_dropped = 0, !.raised = TRUE]
    ELSE LET kept == dropna(c.left, Range(cols))
         IN  [c EXCEPT !.left = kept,
                       !.after_missing = kept,
                       !.rows_dropped = len(c.left) - len(kept)]

\* _handle_missing_values: the three policies in order
handle_missing_values(c, columns_to_fill_mode, columns_to_fill_unknown, columns_to_drop_rows_if_na) ==
    DropRows(FillUnknownColumns(FillModeColumns(c, columns_to_fill_mode),
                                columns_to_fill_unknown),
             columns_to_drop_rows_if_na)

\* lines 85-91, 104-111: the column is replaced by its conversion and the
\* values that failed the conversion are counted as the increase in nulls
Converted(c, col, cells) ==
    [c EXCEPT !.left = AssignColumn(c.left, col, cells),
              !.failed[col] = CountNull(cells) - CountNull(Column(c.left, col))]

\* ResetFutureDates as it would be with the mask df[col] >= pd.Timestamp.now()
ResetFutureDates_inclusive(c, col) ==
    LET cells == Column(c.left, col)
        future_dates_mask == [i \in DOMAIN cells |->
                                 cells[i].t = "ts" /\ cells[i].v >= c.now]
    IN  [c EXCEPT !.left = AssignColumn(c.left, col,
                      [i \in DOMAIN cells |->
                          IF future_dates_mask[i] THEN NaN ELSE cells[i]]),
                  !.future[col] = Cardinality({i \in DOMAIN cells : future_dates_mask[i]})]

\* lines 94-99: the dates later than now are counted and set to NaT
ResetFutureDates(c, col) ==
    LET cells == Column(c.left, col)
        future_dates_mask == [i \in DOMAIN cells |->
                                 cells[i].t = "ts" /\ cells[i].v > c.now]
    IN  [c EXCEPT !.left = AssignColumn(c.left, col,
                      [i \in DOMAIN cells |->
                          IF future_dates_mask[i] THEN NaN ELSE cells[i]]),
                  !.future[col] = Cardinality({i \in DOMAIN cells : future_dates_mask[i]})]

\* lines 83-99: one column of date_columns
CorrectDate(c, col) ==
    IF col \in c.left.columns
    THEN ResetFutureDates(
             Converted(c, col,
                 [i \in DOMAIN c.left.rows |-> to_datetime(c.left.rows[i][col])]),
             col)
    ELSE c

\* lines 102-112: one column of numeric_columns
CorrectNumeric(c, col) ==
    IF col \in c.left.columns
    THEN Converted(c, col,
             [i \in DOMAIN c.left.rows |-> to_numeric(c.left.rows[i][col])])
    ELSE c

\* lines 83, 102: the loops over the listed columns
RECURSIVE CorrectDates(_, _)
CorrectDates(c, cols) ==
    IF cols = <<>> THEN c
    ELSE CorrectDates(CorrectDate(c, Head(cols)), Tail(cols))

RECURSIVE CorrectNumerics(_, _)
CorrectNumerics(c, cols) ==
    IF cols = <<>> THEN [c EXCEPT !.after_datatypes = c.left]
    ELSE CorrectNumerics(CorrectNumeric(c, Head(cols)), Tail(cols))

\* _correct_datatypes: per listed column the number of values that failed
\* the conversion and the number of future dates set to NaT
correct_datatypes(c, date_columns, numeric_columns) ==
    CorrectNumerics(
        CorrectDates(
            [c EXCEPT !.failed = [x \in Range(date_columns) \cup Range(numeric_columns) |-> 0],
                      !.future = [x \in Range(date_columns) \cup Range(numeric_columns) |-> 0]],
            date_columns),
        numeric_columns)

\* _handle_duplicates: the duplicates on subset_cols dropped and counted
handle_duplicates(c, subset_cols) ==
    IF subset_cols # <<>> /\ \A i \in DOMAIN subset_cols : subset_cols[i] \in c.left.columns
    THEN LET deduplicated == drop_duplicates(c.left, Range(subset_cols))
         IN  [c EXCEPT !.left = deduplicated,
                       !.after_duplicates = deduplicated,
                       !.duplicates_dropped = len(c.left) - len(deduplicated)]
    ELSE [c EXCEPT !.after_duplicates = c.left, !.duplicates_dropped = 0]

\* The record o of one _handle_outliers call: its arguments, the DataFrame,
\* whether the column was handled, the numbers of values found below the
\* bound and above the threshold, the logged total, and the threshold (NaN
\* when none was computed)
Outliers(df, col_name, lower_bound, upper_quantile, strategy) ==
    [df |-> df,
     col_name |-> col_name,
     strategy |-> strategy,
     handled |-> TRUE,
     lower_bound |-> lower_bound,
     upper_quantile |-> upper_quantile,
     after_lower |-> df,
     invalid_lower |-> 0,
     invalid_upper |-> 0,
     initial_outlier_count |-> 0,
     upper_limit |-> NaN]

\* df.loc[mask, col_name] = value, or df = df[~mask], as the strategy says
Apply(df, col_name, mask, value, strategy) ==
    CASE strategy = "cap" ->
            AssignColumn(df, col_name,
                [i \in DOMAIN df.rows |-> IF mask[i] THEN value ELSE df.rows[i][col_name]])
      [] strategy = "nan" ->
            AssignColumn(df, col_name,
                [i \in DOMAIN df.rows |-> IF mask[i] THEN NaN ELSE df.rows[i][col_name]])
      [] strategy = "remove" ->
            DataFrame(df.columns,
                [k \in 1 .. Cardinality({i \in DOMAIN df.rows : ~mask[i]}) |->
                    df.rows[CHOOSE i \in DOMAIN df.rows :
                        ~mask[i] /\ Cardinality({j \in 1 .. i : ~mask[j]}) = k]])
      [] OTHER -> df

\* lines 155-163: the lower bound
LowerStep(o, strategy) ==
    IF o.lower_bound = <<>> THEN o
    ELSE LET cells == Column(o.df, o.col_name)
             invalid_lower_mask == [i \in DOMAIN cells |->
                 cells[i].t = "num" /\ cells[i].v < o.lower_bound[1]]
             count == Cardinality({i \in DOMAIN cells : invalid_lower_mask[i]})
             changed == Apply(o.df, o.col_name, invalid_lower_mask,
                              Num(o.lower_bound[1]), strategy)
         IN  [o EXCEPT !.df = changed,
                       !.after_lower = changed,
                       !.invalid_lower = count,
                       !.initial_outlier_count = @ + count]

\* line 167: the threshold, the upper quantile of the column
UpperLimit(o) ==
    IF o.upper_quantile = <<>> THEN o
    ELSE [o EXCEPT !.upper_limit = quantile(Column(o.df, o.col_name),
                                            o.upper_quantile[1], o.upper_quantile[2])]

\* UpperStep as it would be without the assignment of line 171: the values
\* above the threshold are counted, not capped
UpperStep_uncapped(o, strategy) ==
    IF o.upper_quantile = <<>> THEN o
    ELSE LET cells == Column(o.df, o.col_name)
             count == Cardinality({i \in DOMAIN cells :
                         /\ cells[i].t = "num"
                         /\ o.upper_limit.t = "num"
                         /\ cells[i].v > o.upper_limit.v})
         IN  [o EXCEPT !.invalid_upper = count,
                       !.initial_outlier_count = @ + count]

\* lines 168-175: the values above the threshold
UpperStep(o, strategy) ==
    IF o.upper_quantile = <<>> THEN o
    ELSE LET cells == Column(o.df, o.col_name)
             invalid_upper_mask == [i \in DOMAIN cells |->
                 /\ cells[i].t = "num"
                 /\ o.upper_limit.t = "num"
                 /\ cells[i].v > o.upper_limit.v]
             count == Cardinality({i \in DOMAIN cells : invalid_upper_mask[i]})
         IN  [o EXCEPT !.df = Apply(o.df, o.col_name, invalid_upper_mask,
                                    o.upper_limit, strategy),
                       !.invalid_upper = count,
                       !.initial_outlier_count = @ + count]

\* lines 177-180: the call of _handle_outliers recorded in the record of the
\* cleaning method, whose df is the DataFrame it returned
Handled(c, o) == [c EXCEPT !.outliers = Append(@, o), !.left = o.df]

\* _handle_outliers as it would be with the threshold of line 167 computed
\* before the lower bound is applied
handle_outliers_threshold_first(c, col_name, lower_bound, upper_quantile, strategy) ==
    IF c.raised THEN c
    ELSE IF col_name \in c.left.columns /\ is_numeric_dtype(Column(c.left, col_name))
    THEN Handled(c, UpperStep(LowerStep(UpperLimit(
             Outliers(c.left, col_name, lower_bound, upper_quantile, strategy)), strategy), strategy))
    ELSE Handled(c, [Outliers(c.left, col_name, lower_bound, upper_quantile, strategy)
                        EXCEPT !.handled = FALSE])

\* _handle_outliers (an exception raised earlier has ended the method)
handle_outliers(c, col_name, lower_bound, upper_quantile, strategy) ==
    IF c.raised THEN c
    ELSE IF col_name \in c.left.columns /\ is_numeric_dtype(Column(c.left, col_name))
    THEN Handled(c, UpperStep(UpperLimit(LowerStep(
             Outliers(c.left, col_name, lower_bound, upper_quantile, strategy), strategy)), strategy))
    ELSE Handled(c, [Outliers(c.left, col_name, lower_bound, upper_quantile, strategy)
                        EXCEPT !.handled = FALSE])

\* lines 192-194: one column of the text columns
StandardizeText(df, col) ==
    IF col \in df.columns /\ is_string_dtype(Column(df, col))
    THEN AssignColumn(df, col,
            [i \in DOMAIN df.rows |-> Str(title(strip(df.rows[i][col].v)))])
    ELSE df

\* _standardize_text_columns (an exception raised earlier has ended the method)
RECURSIVE standardize_text_columns(_, _)
standardize_text_columns(c, columns) ==
    IF columns = <<>> \/ c.raised THEN c
    ELSE standardize_text_columns([c EXCEPT !.left = StandardizeText(@, Head(columns))],
                                  Tail(columns))

-----------------------------------------------------------------------------
(* The three public cleaning methods, as functions of the DataFrame the    *)
(* attribute refers to and of the instant pd.Timestamp.now() returns.      *)
(* Each yields the record of the call, the steps applied in the order of   *)
(* the source from the innermost outwards.                                 *)

NoLimit == <<>>

\* the configured duplicate keys (lines 210-216, 260, 293)
TransactionsKey ==
    <<"transaction_id", "customer_id", "transaction_timestamps", "order_total", "item_name">>
LoyaltyKey == <<"loyalty_member_id", "customer_id">>
CustomerKey == <<"customer_id", "email">>

\* the columns whose nulls drop the row (lines 231, 271, 302)
TransactionsCritical == <<"order_total", "quantity">>
LoyaltyCritical == <<"customer_id">>
CustomerCritical == <<"customer_id">>

\* the columns filled with their mode (line 229)
TransactionsFillMode == <<"payment_method", "order_source">>

\* the date columns (lines 222, 296)
TransactionsDates == <<"transaction_timestamps">>
CustomerDates == <<"DOB">>

\* clean_transactions_data
clean_transactions_data(df, now) ==
    standardize_text_columns(
        handle_outliers(
            handle_outliers(
                handle_missing_values(
                    correct_datatypes(
                        handle_duplicates(Call(df, now), TransactionsKey),
                        TransactionsDates, <<"order_total", "quantity", "item_price">>),
                    TransactionsFillMode, <<"item_name", "item_category">>,
                    TransactionsCritical),
                "order_total", <<Scale \div 10>>, <<99, 100>>, "cap"),
            "quantity", <<Scale>>, <<99, 100>>, "cap"),
        <<"item_name", "item_category", "payment_method", "order_source">>)

\* clean_loyalty_data; line 271 calls dropna on customer_id directly
clean_loyalty_data(df, now) ==
    standardize_text_columns(
        handle_outliers(
            DropRows(
                handle_missing_values(
                    correct_datatypes(
                        handle_duplicates(Call(df, now), LoyaltyKey),
                        <<>>, <<"total_loyalty_points">>),
                    <<>>, <<"assigned_discount_group(s)">>, <<>>),
                LoyaltyCritical),
            "total_loyalty_points", <<0>>, NoLimit, "cap"),
        <<"assigned_discount_group(s)">>)

\* clean_customer_data
clean_customer_data(df, now) ==
    standardize_text_columns(
        handle_outliers(
            handle_missing_values(
                correct_datatypes(
                    handle_duplicates(Call(df, now), CustomerKey),
                    CustomerDates, <<>>),
                <<>>, <<"email", "phone", "address", "gender">>, CustomerCritical),
            "age", <<0>>, <<999, 1000>>, "cap"),
        <<"gender">>)

-----------------------------------------------------------------------------
(* The DataCleaner object and its callers *)

Kinds == {"transactions", "loyalty", "customer"}

\* the attribute holding the working DataFrame of a kind, and the one
\* holding its cleaned DataFrame
Attr == [transactions |-> "transactions_df", loyalty |-> "loyalty_df",
         customer |-> "customer_df"]
CleanedAttr == [transactions |-> "cleaned_transactions_df",
                loyalty |-> "cleaned_loyalty_df",
                customer |-> "cleaned_customer_df"]

\* the DataFrame objects: the three the caller passes to the constructor
\* and the three the constructor creates
Arg == [transactions |-> "arg_transactions", loyalty |-> "arg_loyalty",
        customer |-> "arg_customer"]
Copied == [arg_transactions |-> "copy_transactions", arg_loyalty |-> "copy_loyalty",
           arg_customer |-> "copy_customer"]
Refs == {Arg[k] : k \in Kinds} \cup {Copied[Arg[k]] : k \in Kinds}

\* the constructor as it would be without .copy(): the caller's object itself
copy_alias(ref) == ref

\* DataFrame.copy(): the reference of the new object holding the copy
copy(ref) == Copied[ref]

clean(kind, df, now) ==
    CASE kind = "transactions" -> clean_transactions_data(df, now)
      [] kind = "loyalty" -> clean_loyalty_data(df, now)
      [] kind = "customer" -> clean_customer_data(df, now)

\* Execute as it would be with the cleaned attribute assigned before the
\* steps run: a call that raises leaves the partly cleaned DataFrame cached
Execute_caching_first(st, kind, call) ==
    [heap |-> [st.heap EXCEPT ![st.self[Attr[kind]]] = call.left],
     self |-> [st.self EXCEPT ![CleanedAttr[kind]] = st.self[Attr[kind]]],
     trace |-> [st.trace EXCEPT ![kind] = call],
     runs |-> [st.runs EXCEPT ![kind] = @ + 1],
     raised |-> call.raised]

\* Execute as it would be with the steps working on a copy of the DataFrame
\* that is then discarded: the object self.<kind>_df refers to is not changed
Execute_on_discarded_copy(st, kind, call) ==
    [heap |-> st.heap,
     self |-> IF call.raised THEN st.self
              ELSE [st.self EXCEPT ![CleanedAttr[kind]] = st.self[Attr[kind]]],
     trace |-> [st.trace EXCEPT ![kind] = call],
     runs |-> [st.runs EXCEPT ![kind] = @ + 1],
     raised |-> call.raised]

\* The effect of one execution of clean_<kind>_data, whose record is call,
\* on the object state st = [heap, self, trace, runs, raised].  The local df
\* is the object self.<kind>_df refers to; every step changes that object in
\* place (with the "cap" strategy no step rebinds df), and the last
\* statement stores the same reference in self.cleaned_<kind>_df.  When
\* dropna raises KeyError the steps before it have been applied and the
\* attribute is not assigned.
Execute(st, kind, call) ==
    [heap |-> [st.heap EXCEPT ![st.self[Attr[kind]]] = call.left],
     self |-> IF call.raised THEN st.self
              ELSE [st.self EXCEPT ![CleanedAttr[kind]] = st.self[Attr[kind]]],
     trace |-> [st.trace EXCEPT ![kind] = call],
     runs |-> [st.runs EXCEPT ![kind] = @ + 1],
     raised |-> call.raised]

\* get_cleaned_data as it would be without the "is None" tests
Memoized_never(st, kind, now) ==
    IF st.raised THEN st
    ELSE Execute(st, kind, clean(kind, st.heap[st.self[Attr[kind]]], now))

\* lines 323-328: clean_<kind>_data is called only when the cached attribute
\* is None (an exception raised by an earlier one has ended the call)
Memoized(st, kind, now) ==
    IF st.raised THEN st
    ELSE IF st.self[CleanedAttr[kind]] = None
    THEN Execute(st, kind, clean(kind, st.heap[st.self[Attr[kind]]], now))
    ELSE st

\* lines 323-328: the tests of the listed kinds in order, nows[i] the instant
\* the i-th method would read
RECURSIVE get_cleaned_data(_, _, _)
get_cleaned_data(st, kinds, nows) ==
    IF kinds = <<>> THEN st
    ELSE get_cleaned_data(Memoized(st, Head(kinds), Head(nows)), Tail(kinds), Tail(nows))

Current == [heap |-> heap, self |-> self, trace |-> trace, runs |-> runs, raised |-> FALSE]

\* the clock advances by at most one instant during the calls
LastInstant == FirstInstant + 1

\* the state after a public call, and the outcome of the call: the
\* references it returned (the values of the listed attributes) or that it
\* raised, and the cleaning methods it executed (each prints "Cleaning ...
\* data")
Commit(st, op, attrs) ==
    /\ heap' = st.heap
    /\ self' = st.self
    /\ trace' = st.trace
    /\ runs' = st.runs
    /\ varied' = varied
    /\ returned' = [op |-> op, raised |-> st.raised,
                    executed |-> {k \in Kinds : st.runs[k] > runs[k]},
                    value |-> IF st.raised THEN <<>>
                              ELSE [i \in DOMAIN attrs |-> st.self[attrs[i]]]]

\* a direct call of clean_transactions_data()
CleanTransactions ==
    /\ varied = "transactions"
    /\ runs["transactions"] < MaxRuns
    /\ \E now \in clock .. LastInstant :
        /\ clock' = now
        /\ Commit(Execute(Current, "transactions",
                          clean_transactions_data(heap[self.transactions_df], now)),
                  "clean_transactions_data", <<"cleaned_transactions_df">>)

\* a direct call of clean_loyalty_data() (it does not read the clock)
CleanLoyalty ==
    /\ varied = "loyalty"
    /\ runs["loyalty"] < MaxRuns
    /\ clock' = clock
    /\ Commit(Execute(Current, "loyalty", clean_loyalty_data(heap[self.loyalty_df], clock)),
              "clean_loyalty_data", <<"cleaned_loyalty_df">>)

\* a direct call of clean_customer_data()
CleanCustomer ==
    /\ varied = "customer"
    /\ runs["customer"] < MaxRuns
    /\ \E now \in clock .. LastInstant :
        /\ clock' = now
        /\ Commit(Execute(Current, "customer",
                          clean_customer_data(heap[self.customer_df], now)),
                  "clean_customer_data", <<"cleaned_customer_df">>)

\* a call of get_cleaned_data(): the three methods in order, each only when
\* its cached attribute is None; an exception ends the call
GetCleanedData ==
    /\ \A k \in Kinds : self[CleanedAttr[k]] = None => runs[k] < MaxRuns
    /\ \E now_t \in clock .. LastInstant : \E now_c \in now_t .. LastInstant :
        /\ clock' = IF self.cleaned_customer_df = None THEN now_c
                    ELSE IF self.cleaned_transactions_df = None THEN now_t
                    ELSE clock
        /\ Commit(get_cleaned_data(Current, <<"transactions", "loyalty", "customer">>,
                                   <<now_t, now_t, now_c>>),
                  "get_cleaned_data",
                  <<"cleaned_transactions_df", "cleaned_loyalty_df", "cleaned_customer_df">>)

-----------------------------------------------------------------------------
(* The DataFrames the caller constructs the object with *)

Seqs(S, n) == UNION {[1 .. m -> S] : m \in 0 .. n}

Digit(d) == Alphabet[FirstDigit + d]
YearString(y) ==
    <<Digit(y \div 1000), Digit((y \div 100) % 10), Digit((y \div 10) % 10), Digit(y % 10)>>

Past == FirstInstant - 6
Future == FirstInstant + 4

TransactionsBase ==
    [transaction_id |-> Str(<<"1">>),
     customer_id |-> Str(<<"1">>),
     transaction_timestamps |-> Ts(Past),
     order_total |-> Num(5 * Scale),
     item_name |-> Str(<<"a", "b">>),
     quantity |-> Num(2 * Scale),
     item_price |-> Num(Scale),
     payment_method |-> Str(<<"a">>),
     order_source |-> Str(<<"a">>),
     item_category |-> Str(<<"a">>)]

TransactionsRows ==
    {TransactionsBase,
     [TransactionsBase EXCEPT !.order_total = Num((0 - 100) * Scale),
                              !.transaction_timestamps = Str(<<"x", "x">>),
                              !.payment_method = Str(<<"b">>),
                              !.item_category = NaN],
     [TransactionsBase EXCEPT !.order_total = Num(0),
                              !.transaction_timestamps = Ts(Future),
                              !.quantity = Num(0),
                              !.payment_method = NaN],
     [TransactionsBase EXCEPT !.order_total = Num(100 * Scale),
                              !.transaction_timestamps = Str(YearString(FirstInstant)),
                              !.quantity = Str(<<"9">>),
                              !.order_source = NaN],
     [TransactionsBase EXCEPT !.order_total = Str(<<"5">>),
                              !.item_name = Str(<<" ", "A", "B", " ">>)],
     [TransactionsBase EXCEPT !.order_total = Str(<<"x">>),
                              !.item_name = NaN]}

TransactionsMissing == {"quantity", "transaction_id", "payment_method"}

LoyaltyBase ==
    [c \in {"loyalty_member_id", "customer_id", "total_loyalty_points",
            "assigned_discount_group(s)"} |->
        CASE c = "loyalty_member_id" -> Str(<<"1">>)
          [] c = "customer_id" -> Str(<<"1">>)
          [] c = "total_loyalty_points" -> Num(500 * Scale)
          [] c = "assigned_discount_group(s)" -> Str(<<"a", " ", "b">>)]

LoyaltyRows ==
    {LoyaltyBase,
     [LoyaltyBase EXCEPT !["total_loyalty_points"] = Num((0 - 10) * Scale),
                         !["assigned_discount_group(s)"] = Str(<<"A", " ", "B">>)],
     [LoyaltyBase EXCEPT !["loyalty_member_id"] = Str(<<"2">>),
                         !["customer_id"] = NaN,
                         !["total_loyalty_points"] = Str(<<"x">>)],
     [LoyaltyBase EXCEPT !["loyalty_member_id"] = Str(<<"2">>),
                         !["total_loyalty_points"] = Str(<<"-", "7">>),
                         !["assigned_discount_group(s)"] = NaN]}

LoyaltyMissing == {"customer_id", "total_loyalty_points"}

CustomerBase ==
    [customer_id |-> Str(<<"1">>),
     email |-> Str(<<"a">>),
     DOB |-> Ts(Past),
     phone |-> Str(<<"1">>),
     address |-> Str(<<"a">>),
     gender |-> Str(<<"f">>),
     age |-> Num(30 * Scale)]

CustomerRows ==
    {CustomerBase,
     [CustomerBase EXCEPT !.email = NaN,
                          !.DOB = Ts(Future),
                          !.gender = NaN,
                          !.age = Num((0 - 5) * Scale)],
     [CustomerBase EXCEPT !.email = Str(<<"U", "n", "k", "n", "o", "w", "n">>),
                          !.DOB = Str(YearString(FirstInstant + 1)),
                          !.gender = Str(<<" ", "F">>),
                          !.age = Num(200 * Scale)],
     [CustomerBase EXCEPT !.customer_id = NaN,
                          !.DOB = Str(<<"x", "x">>),
                          !.age = NaN],
     [CustomerBase EXCEPT !.customer_id = Str(<<"2">>),
                          !.email = Str(<<"b">>),
                          !.age = Str(<<"x">>)]}

CustomerMissing == {"customer_id", "age"}

Rows == [transactions |-> TransactionsRows, loyalty |-> LoyaltyRows,
         customer |-> CustomerRows]
Base == [transactions |-> TransactionsBase, loyalty |-> LoyaltyBase,
         customer |-> CustomerBase]
Missing == [transactions |-> TransactionsMissing, loyalty |-> LoyaltyMissing,
            customer |-> CustomerMissing]

\* the DataFrame of the given rows of a kind, without the column named missing
Frame(kind, rows, missing) ==
    LET columns == DOMAIN Base[kind] \ {missing}
    IN  DataFrame(columns, [i \in DOMAIN rows |-> [c \in columns |-> rows[i][c]]])

\* the inputs of a kind: every DataFrame of at most MaxRows rows with all
\* the columns, and every one of fewer rows that lacks one column
Inputs(kind) ==
    {Frame(kind, rows, "") : rows \in Seqs(Rows[kind], MaxRows)}
        \cup {Frame(kind, rows, missing) :
                rows \in Seqs(Rows[kind], MaxRows - 1), missing \in Missing[kind]}

Default(kind) == Frame(kind, <<Base[kind]>>, "")

KindOf(ref) == CHOOSE k \in Kinds : ref \in {Arg[k], Copied[Arg[k]]}

NoTrace == [ran |-> FALSE]

\* __init__: the object after construction with input as the DataFrame of
\* the given kind and one clean row in the two others
Constructed(kind, input) ==
        LET arg == [k \in Kinds |-> IF k = kind THEN input ELSE Default(k)]
        IN  /\ varied = kind
            /\ heap = [r \in Refs |-> arg[KindOf(r)]]
            /\ self = [transactions_df |-> copy(Arg.transactions),
                       loyalty_df |-> copy(Arg.loyalty),
                       customer_df |-> copy(Arg.customer),
                       cleaned_transactions_df |-> None,
                       cleaned_loyalty_df |-> None,
                       cleaned_customer_df |-> None]
            /\ trace = [k \in Kinds |-> NoTrace]
            /\ returned = [op |-> "__init__", raised |-> FALSE, executed |-> {}, value |-> <<>>]
            /\ clock = FirstInstant
            /\ runs = [k \in Kinds |-> 0]

\* one of the three DataFrames ranges over the inputs of its kind
Init == \E kind \in Kinds : \E input \in Inputs(kind) : Constructed(kind, input)

Next ==
    \/ CleanTransactions
    \/ CleanLoyalty
    \/ CleanCustomer
    \/ GetCleanedData

Spec == Init /\ [][Next]_vars

-----------------------------------------------------------------------------
(* The mode fill of clean_transactions_data on its own: transactions with *)
(* distinct ids whose rows differ otherwise in the two mode-filled columns *)
(* only.                                                                   *)

\* largest number of rows of a transactions DataFrame of SpecFill
MaxFillRows == 3

FillRows ==
    {TransactionsBase,
     [TransactionsBase EXCEPT !.payment_method = Str(<<"b">>),
                              !.order_source = Str(<<"B">>)],
     [TransactionsBase EXCEPT !.payment_method = NaN],
     [TransactionsBase EXCEPT !.payment_method = NaN,
                              !.order_source = NaN]}

\* the rows numbered by their transaction_id
Numbered(rows) ==
    [i \in DOMAIN rows |-> [rows[i] EXCEPT !.transaction_id = Str(<<Digit(i)>>)]]

InitFill ==
    \E rows \in Seqs(FillRows, MaxFillRows) :
        Constructed("transactions", Frame("transactions", Numbered(rows), ""))

NextFill == CleanTransactions

SpecFill == InitFill /\ [][NextFill]_vars

-----------------------------------------------------------------------------
(* _handle_outliers on its own, with each of its three strategies and with *)
(* and without each of its two limits, on the order_total column of        *)
(* transactions with distinct ids.                                         *)

\* largest number of rows of a transactions DataFrame of SpecOutliers
MaxOutlierRows == 3

Strategies == {"cap", "nan", "remove"}

OutlierRows ==
    {[TransactionsBase EXCEPT !.order_total = v] :
        v \in {Num(0 - 100 * Scale), Num(0), Num(5 * Scale), Num(100 * Scale), NaN}}

InitOutliers ==
    \E rows \in Seqs(OutlierRows, MaxOutlierRows) :
        Constructed("transactions", Frame("transactions", Numbered(rows), ""))

\* The effect of one _handle_outliers call, whose record is call, on the
\* object state st: "cap" and "nan" assign through df.loc, in place in the
\* object self.transactions_df refers to; "remove" rebinds the local df to a
\* new DataFrame (lines 163, 175) and leaves that object as it was.
OutliersHandled(st, call, strategy) ==
    [heap |-> IF strategy = "remove" THEN st.heap
              ELSE [st.heap EXCEPT ![st.self.transactions_df] = call.left],
     self |-> st.self,
     trace |-> [st.trace EXCEPT !.transactions = call],
     runs |-> [st.runs EXCEPT !.transactions = @ + 1],
     raised |-> FALSE]

\* one call of _handle_outliers(self.transactions_df, "order_total", ...)
HandleOutliers ==
    /\ varied = "transactions"
    /\ runs.transactions < 1
    /\ clock' = clock
    /\ \E strategy \in Strategies :
       \E lower_bound \in {NoLimit, <<Scale \div 10>>} :
       \E upper_quantile \in {NoLimit, <<99, 100>>, <<1, 2>>} :
           Commit(OutliersHandled(Current,
                      handle_outliers(Call(heap[self.transactions_df], clock),
                          "order_total", lower_bound, upper_quantile, strategy),
                      strategy),
                  "_handle_outliers", <<>>)

NextOutliers == HandleOutliers

SpecOutliers == InitOutliers /\ [][NextOutliers]_vars

-----------------------------------------------------------------------------
(* The three cleaning methods together with direct calls of                *)
(* _handle_outliers, so that every step is seen with every strategy.       *)

NextSteps ==
    \/ CleanTransactions
    \/ CleanLoyalty
    \/ CleanCustomer
    \/ HandleOutliers

SpecSteps == Init /\ [][NextSteps]_vars

-----------------------------------------------------------------------------
(* The configuration of the three pipelines, by dataset kind *)

Key == [transactions |-> TransactionsKey, loyalty |-> LoyaltyKey, customer |-> CustomerKey]
Critical == [transactions |-> TransactionsCritical, loyalty |-> LoyaltyCritical,
             customer |-> CustomerCritical]
Dates == [transactions |-> TransactionsDates, loyalty |-> <<>>, customer |-> CustomerDates]

-----------------------------------------------------------------------------
(* Claims *)

\* C1: in every cleaned dataset (the DataFrame a cached attribute refers
\* to) no two records agree on every column of the duplicate key configured
\* for that pipeline.
C1_NoDuplicateOnKey ==
    \A k \in Kinds :
        self[CleanedAttr[k]] # None =>
            LET df == heap[self[CleanedAttr[k]]]
                key == Range(Key[k])
            IN  key \subseteq df.columns =>
                    \A i, j \in DOMAIN df.rows :
                        i < j => KeyOf(df.rows[i], key) # KeyOf(df.rows[j], key)

\* C2: a run of a pipeline on the output of an earlier run of the same
\* pipeline (the second and later executions of a cleaning method work on
\* the DataFrame the earlier one cleaned in place) drops no duplicate row
\* and counts no outlier.
C2_RerunCorrectsNothing ==
    \A k \in Kinds :
        (trace[k].ran /\ ~trace[k].raised /\ runs[k] >= 2) =>
            /\ trace[k].duplicates_dropped = 0
            /\ \A n \in DOMAIN trace[k].outliers :
                   trace[k].outliers[n].initial_outlier_count = 0

\* C3: a get_cleaned_data request made when the three cleaned datasets are
\* cached (in particular any request after one that returned) executes no
\* cleaning method, changes no DataFrame and returns the cached datasets;
\* a request following a request that returned returns the same datasets;
\* a request that returns has executed exactly the cleaning methods of the
\* datasets that were not cached.
C3_Memoized ==
    [][/\ (returned'.op = "get_cleaned_data" /\ ~returned'.raised) =>
              returned'.executed = {k \in Kinds : self[CleanedAttr[k]] = None}
       /\ (/\ returned'.op = "get_cleaned_data"
           /\ \/ \A k \in Kinds : self[CleanedAttr[k]] # None
              \/ returned.op = "get_cleaned_data" /\ ~returned.raised)
          => /\ returned'.executed = {}
             /\ ~returned'.raised
             /\ returned'.value = <<self.cleaned_transactions_df,
                                    self.cleaned_loyalty_df,
                                    self.cleaned_customer_df>>
             /\ heap' = heap /\ self' = self /\ trace' = trace /\ runs' = runs
             /\ (returned.op = "get_cleaned_data" =>
                    returned'.value = returned.value)]_vars

\* C3 witness: a get_cleaned_data request has returned without executing a
\* cleaning method, after every pipeline ran exactly once
C3_Witness ==
    /\ returned.op = "get_cleaned_data"
    /\ ~returned.raised
    /\ returned.executed = {}
    /\ \A k \in Kinds : runs[k] = 1 /\ returned.value # <<>>

\* C4: no call changes a DataFrame the caller passed to the constructor.
C4_ArgumentsUnchanged ==
    [][\A k \in Kinds : heap'[Arg[k]] = heap[Arg[k]]]_vars

\* C4 witness: a cleaning method has changed the working DataFrame of a
\* kind, which now differs from the caller's DataFrame
C4_Witness ==
    \E k \in Kinds :
        /\ runs[k] > 0
        /\ self[CleanedAttr[k]] # None
        /\ heap[self[Attr[k]]] # heap[Arg[k]]
        /\ len(heap[self[Attr[k]]]) < len(heap[Arg[k]])

\* C5: when a cleaning method has handled a numeric column with the "cap"
\* strategy, every non-null value of the column is at least the lower
\* bound and at most the threshold computed in that handling (when an upper
\* quantile is configured), right after the handling and in the cleaned
\* output.
C5_WithinRange ==
    \A k \in Kinds :
        (trace[k].ran /\ ~trace[k].raised) =>
            \A n \in DOMAIN trace[k].outliers :
                LET o == trace[k].outliers[n]
                    within(c) ==
                        isnull(c) \/
                            /\ c.t = "num"
                            /\ o.lower_bound # <<>> => o.lower_bound[1] <= c.v
                            /\ o.upper_quantile # <<>> =>
                                   o.upper_limit.t = "num" /\ c.v <= o.upper_limit.v
                IN  o.handled =>
                        /\ \A i \in DOMAIN o.df.rows : within(o.df.rows[i][o.col_name])
                        /\ \A i \in DOMAIN trace[k].left.rows :
                               within(trace[k].left.rows[i][o.col_name])

\* C5 witness: one handling found values below the lower bound and values
\* above the threshold, and the cleaned output keeps rows
C5_Witness ==
    \E k \in Kinds :
        /\ trace[k].ran /\ ~trace[k].raised
        /\ \E n \in DOMAIN trace[k].outliers :
               /\ trace[k].outliers[n].handled
               /\ trace[k].outliers[n].invalid_lower > 0
               /\ trace[k].outliers[n].invalid_upper > 0

\* C6: in a cleaned dataset every drop-if-null column is present and holds
\* no null, after the drop and in the cleaned output.
C6_NoNullInCritical ==
    \A k \in Kinds :
        /\ (trace[k].ran /\ ~trace[k].raised) =>
               \A n \in DOMAIN Critical[k] :
                   /\ Critical[k][n] \in trace[k].left.columns
                   /\ \A i \in DOMAIN trace[k].after_missing.rows :
                          ~isnull(trace[k].after_missing.rows[i][Critical[k][n]])
                   /\ \A i \in DOMAIN trace[k].left.rows :
                          ~isnull(trace[k].left.rows[i][Critical[k][n]])
        /\ self[CleanedAttr[k]] # None =>
               \A n \in DOMAIN Critical[k] :
                   \A i \in DOMAIN heap[self[CleanedAttr[k]]].rows :
                       ~isnull(heap[self[CleanedAttr[k]]].rows[i][Critical[k][n]])

\* C6 witness: a run dropped a row for a null in a critical column and its
\* output keeps a row whose value was changed by outlier clipping
C6_Witness ==
    \E k \in Kinds :
        /\ trace[k].ran /\ ~trace[k].raised
        /\ trace[k].rows_dropped > 0
        /\ len(trace[k].left) > 0
        /\ \E n \in DOMAIN trace[k].outliers :
               trace[k].outliers[n].initial_outlier_count > 0

\* C7: after the coercion of a date column every value that parses to an
\* instant later than the processing instant is the null marker and every
\* other value is what it parses to (so a value equal to the instant is
\* kept); the reported number of future dates is the number of such values
\* and the reported number of failed conversions is the number of non-null
\* values that do not parse; no date of a cleaned dataset is later than
\* the processing instant.
C7_NoFutureDate ==
    \A k \in Kinds : \A n \in DOMAIN Dates[k] :
        LET d == Dates[k][n]
            before == Column(trace[k].after_duplicates, d)
            after == Column(trace[k].after_datatypes, d)
            later(i) == to_datetime(before[i]).t = "ts"
                            /\ to_datetime(before[i]).v > trace[k].now
            not_later(c, instant) == isnull(c) \/ (c.t = "ts" /\ c.v <= instant)
        IN  /\ (trace[k].ran /\ d \in trace[k].input.columns) =>
                /\ \A i \in DOMAIN before :
                       after[i] = IF later(i) THEN NaN ELSE to_datetime(before[i])
                /\ trace[k].future[d] = Cardinality({i \in DOMAIN before : later(i)})
                /\ trace[k].failed[d] =
                       Cardinality({i \in DOMAIN before :
                                       ~isnull(before[i]) /\ isnull(to_datetime(before[i]))})
                /\ \A i \in DOMAIN trace[k].left.rows :
                       not_later(trace[k].left.rows[i][d], trace[k].now)
            /\ (self[CleanedAttr[k]] # None /\ d \in heap[self[CleanedAttr[k]]].columns) =>
                   \A i \in DOMAIN heap[self[CleanedAttr[k]]].rows :
                       not_later(heap[self[CleanedAttr[k]]].rows[i][d], clock)

\* C7 witness: one coercion reset a future date and, separately, failed to
\* parse another value, and the run produced a cleaned dataset
C7_Witness ==
    \E k \in Kinds : \E n \in DOMAIN Dates[k] :
        /\ trace[k].ran /\ ~trace[k].raised
        /\ Dates[k][n] \in trace[k].input.columns
        /\ trace[k].future[Dates[k][n]] > 0
        /\ trace[k].failed[Dates[k][n]] > 0
        /\ self[CleanedAttr[k]] # None

\* C8: a cleaning method completes without raising an error whatever
\* columns the dataset lacks.
C8_AbsentColumnTolerated ==
    /\ ~returned.raised
    /\ \A k \in Kinds : trace[k].ran => ~trace[k].raised

\* C9 as stated: in a mode-filled column with a non-null value every null
\* is replaced by the most frequent non-null value, the one met first in
\* row order when several are most frequent; other cells are unchanged.
C9_FirstSeenMode ==
    \A n \in DOMAIN TransactionsFillMode :
        LET c == TransactionsFillMode[n]
            k == "transactions"
            before == Column(trace[k].after_datatypes, c)
            after == Column(trace[k].after_fill_mode, c)
            count(x) == Cardinality({i \in DOMAIN before : before[i] = x})
            most == {x \in Range(before) : ~isnull(x) /\
                        \A y \in Range(before) : ~isnull(y) => count(y) <= count(x)}
            first(x) == CHOOSE i \in DOMAIN before :
                            before[i] = x /\ \A j \in 1 .. i - 1 : before[j] # x
            fill == CHOOSE x \in most : \A y \in most : first(x) <= first(y)
        IN  (trace[k].ran /\ c \in trace[k].input.columns /\ most # {}) =>
                \A i \in DOMAIN before :
                    after[i] = IF isnull(before[i]) THEN fill ELSE before[i]

\* C9 as amended: the fill value is the most frequent non-null value, the
\* least in sort order when several are most frequent.
C9_LeastMode ==
    \A n \in DOMAIN TransactionsFillMode :
        LET c == TransactionsFillMode[n]
            k == "transactions"
            before == Column(trace[k].after_datatypes, c)
            after == Column(trace[k].after_fill_mode, c)
            count(x) == Cardinality({i \in DOMAIN before : before[i] = x})
            most == {x \in Range(before) : ~isnull(x) /\
                        \A y \in Range(before) : ~isnull(y) => count(y) <= count(x)}
            fill == CHOOSE x \in most : \A y \in most \ {x} : StrLess(x.v, y.v)
        IN  (trace[k].ran /\ c \in trace[k].input.columns /\ most # {}) =>
                \A i \in DOMAIN before :
                    after[i] = IF isnull(before[i]) THEN fill ELSE before[i]

\* C9 witness: a null was filled in a column where two values are most
\* frequent and the one met first is not the least
C9_Witness ==
    /\ trace["transactions"].ran
    /\ LET before == Column(trace["transactions"].after_datatypes, "payment_method")
           after == Column(trace["transactions"].after_fill_mode, "payment_method")
       IN  /\ Len(before) = 3
           /\ before[1] = Str(<<"b">>) /\ before[2] = Str(<<"a">>) /\ isnull(before[3])
           /\ after[3] = Str(<<"a">>)

C11_ThresholdAfterLowerStep ==
    LET c == trace.transactions
    IN  c.ran =>
            LET o == c.outliers[1]
                before == Column(c.input, "order_total")
                below(x) == /\ o.lower_bound # <<>>
                            /\ x.t = "num"
                            /\ x.v < o.lower_bound[1]
                above == [i \in DOMAIN before |->
                             /\ o.upper_quantile # <<>>
                             /\ ~below(before[i])
                             /\ before[i].t = "num"
                             /\ o.upper_limit.t = "num"
                             /\ before[i].v > o.upper_limit.v]
                stepped(strategy) ==
                    CASE strategy = "cap" ->
                            [i \in DOMAIN before |->
                                IF below(before[i]) THEN Num(o.lower_bound[1])
                                ELSE before[i]]
                      [] strategy = "nan" ->
                            [i \in DOMAIN before |->
                                IF below(before[i]) THEN NaN ELSE before[i]]
                      [] strategy = "remove" ->
                            SelectSeq(before, LAMBDA x : ~below(x))
            IN  /\ o.handled
                /\ Column(o.after_lower, "order_total") = stepped(o.strategy)
                /\ o.upper_quantile # <<>> =>
                       o.upper_limit = quantile(stepped(o.strategy),
                                           o.upper_quantile[1], o.upper_quantile[2])
                /\ o.strategy = "cap" =>
                       Column(o.df, "order_total") =
                           [i \in DOMAIN before |->
                               IF below(before[i]) THEN Num(o.lower_bound[1])
                               ELSE IF above[i] THEN o.upper_limit
                               ELSE before[i]]

\* C11 witness: a "cap" call with both limits found a value below the bound
\* and a value above the threshold, and the threshold differs from the
\* quantile of the original values
C11_Witness ==
    LET c == trace.transactions
    IN  /\ c.ran
        /\ c.outliers[1].strategy = "cap"
        /\ c.outliers[1].lower_bound # <<>>
        /\ c.outliers[1].upper_quantile # <<>>
        /\ c.outliers[1].invalid_lower > 0
        /\ c.outliers[1].invalid_upper > 0
        /\ c.outliers[1].upper_limit #
               quantile(Column(c.input, "order_total"),
                        c.outliers[1].upper_quantile[1], c.outliers[1].upper_quantile[2])

\* C12: a cleaning method that raised has cached nothing for its dataset
\* and its call returned nothing; every later execution of the method
\* raises again, so no later call caches or returns that dataset; a cached
\* dataset is always the DataFrame a complete run has left, and a call that
\* returns datasets returns cached ones.
C12_AtomicFailure ==
    [][\A k \in Kinds :
          /\ (trace'[k].ran /\ trace'[k].raised) =>
                 /\ self'[CleanedAttr[k]] = None
                 /\ (k \in returned'.executed =>
                        returned'.raised /\ returned'.value = <<>>)
          /\ (trace[k].ran /\ trace[k].raised) => trace'[k].raised
          /\ self'[CleanedAttr[k]] # None =>
                 /\ trace'[k].ran /\ ~trace'[k].raised
                 /\ heap'[self'[CleanedAttr[k]]] = trace'[k].left
          /\ \A i \in DOMAIN returned'.value :
                 \E j \in Kinds :
                     /\ returned'.value[i] = self'[CleanedAttr[j]]
                     /\ self'[CleanedAttr[j]] # None]_vars

\* C12 witness: a cleaning method raised after its earlier steps had changed
\* the working DataFrame, and a later get_cleaned_data executed it again and
\* raised
C12_Witness ==
    \E k \in Kinds :
        /\ trace[k].ran /\ trace[k].raised
        /\ runs[k] = 2
        /\ returned.op = "get_cleaned_data"
        /\ returned.raised
        /\ k \in returned.executed
        /\ heap[self[Attr[k]]] # heap[Arg[k]]
        /\ self[CleanedAttr[k]] = None

\* C13: a cached cleaned dataset is the very object the working attribute
\* refers to, holding what the last run left; a direct call of a cleaning
\* method whose dataset is cached executes the method again, with the
\* cached data as its input, and the cached attribute then holds what that
\* run left; get_cleaned_data does not execute the method of a cached
\* dataset.
C13_DirectCallCleansAgain ==
    [][\A k \in Kinds :
          LET direct == [transactions |-> "clean_transactions_data",
                         loyalty |-> "clean_loyalty_data",
                         customer |-> "clean_customer_data"]
          IN  /\ self'[CleanedAttr[k]] # None =>
                     /\ self'[CleanedAttr[k]] = self'[Attr[k]]
                     /\ heap'[self'[Attr[k]]] = trace'[k].left
              /\ (self[CleanedAttr[k]] # None /\ returned'.op = direct[k]) =>
                     /\ returned'.executed = {k}
                     /\ runs'[k] = runs[k] + 1
                     /\ trace'[k].input = heap[self[CleanedAttr[k]]]
                     /\ self'[CleanedAttr[k]] = self[CleanedAttr[k]]
                     /\ heap'[self'[CleanedAttr[k]]] = trace'[k].left
                     /\ returned'.value = <<self'[CleanedAttr[k]]>>
              /\ (self[CleanedAttr[k]] # None /\ returned'.op = "get_cleaned_data") =>
                     k \notin returned'.executed]_vars

\* C13 witness: a direct call on a cached dataset ran again and changed the
\* cached data
C13_Witness ==
    \E k \in Kinds :
        /\ returned.op \in {"clean_transactions_data", "clean_loyalty_data",
                             "clean_customer_data"}
        /\ returned.executed = {k}
        /\ runs[k] = 2
        /\ self[CleanedAttr[k]] # None
        /\ trace[k].left # trace[k].input
        /\ heap[self[CleanedAttr[k]]] = trace[k].left

\* C14: in a run of a cleaning method (and in a direct _handle_outliers
\* call) the duplicate elimination, the drop of rows with nulls and the
\* "remove" outlier strategy leave a subsequence of the rows they were
\* given, unchanged and in their order; every other step (conversion,
\* filling, "cap" and "nan" outlier handling, text standardization) keeps
\* the number of rows, their order and every column it is not given; so
\* the DataFrame the run leaves has at most as many rows as its input.
C14_RowsAreSubsequence ==
    \A k \in Kinds :
        LET c == trace[k]
            nth(S, m) == CHOOSE i \in S : Cardinality({j \in S : j < i}) = m - 1
            sub(a, b) ==
                /\ a.columns = b.columns
                /\ \E S \in SUBSET DOMAIN b.rows :
                       /\ Cardinality(S) = Len(a.rows)
                       /\ \A m \in DOMAIN a.rows : a.rows[m] = b.rows[nth(S, m)]
            same_outside(a, b, cols) ==
                /\ a.columns = b.columns
                /\ Len(a.rows) = Len(b.rows)
                /\ \A i \in DOMAIN a.rows : \A col \in a.columns \ cols :
                       a.rows[i][col] = b.rows[i][col]
            converted == [transactions |-> {"transaction_timestamps", "order_total",
                                           "quantity", "item_price"},
                          loyalty |-> {"total_loyalty_points"},
                          customer |-> {"DOB"}]
            filled_mode == [transactions |-> {"payment_method", "order_source"},
                            loyalty |-> {},
                            customer |-> {}]
            filled_unknown == [transactions |-> {"item_name", "item_category"},
                               loyalty |-> {"assigned_discount_group(s)"},
                               customer |-> {"email", "phone", "address", "gender"}]
            text == [transactions |-> {"item_name", "item_category", "payment_method",
                                      "order_source"},
                     loyalty |-> {"assigned_discount_group(s)"},
                     customer |-> {"gender"}]
            given(n) == IF n = 1 THEN c.after_missing ELSE c.outliers[n - 1].df
            last == IF c.outliers = <<>> THEN c.after_missing
                    ELSE c.outliers[Len(c.outliers)].df
        IN  c.ran =>
                /\ sub(c.after_duplicates, c.input)
                /\ same_outside(c.after_duplicates, c.after_datatypes, converted[k])
                /\ same_outside(c.after_datatypes, c.after_fill_mode, filled_mode[k])
                /\ same_outside(c.after_fill_mode, c.after_fill_unknown, filled_unknown[k])
                /\ sub(c.after_missing, c.after_fill_unknown)
                /\ \A n \in DOMAIN c.outliers :
                       IF c.outliers[n].strategy = "remove"
                       THEN /\ sub(c.outliers[n].after_lower, given(n))
                            /\ sub(c.outliers[n].df, c.outliers[n].after_lower)
                       ELSE /\ same_outside(given(n), c.outliers[n].after_lower,
                                            {c.outliers[n].col_name})
                            /\ same_outside(c.outliers[n].after_lower, c.outliers[n].df,
                                            {c.outliers[n].col_name})
                /\ same_outside(last, c.left, text[k])
                /\ len(c.left) <= len(c.input)

\* C14 witness: a run of a cleaning method was given two rows, removed one
\* and left the other with a value changed
C14_Witness ==
    \E k \in Kinds :
        /\ trace[k].ran /\ ~trace[k].raised
        /\ returned.op # "_handle_outliers"
        /\ len(trace[k].input) = 2
        /\ len(trace[k].left) = 1
        /\ \A i \in DOMAIN trace[k].input.rows :
               trace[k].left.rows[1] # trace[k].input.rows[i]

====
